---------------------------- MODULE Spec2Model ----------------------------
(***************************************************************************)
(* Position ledger, T0 matcher, risk evaluator and T0 signal generator of   *)
(* the YXT manual T0 collaboration tool (src/src/position_calc.py,          *)
(* src/src/risk_check.py, src/src/t0_strategy.py, src/src/dbf_parser.py).   *)
(*                                                                         *)
(* Conventions of the model:                                               *)
(*  - identifiers (stock_code, account_id, strategy) are strings and the   *)
(*    composite key is their concatenation, as the f-string of the code;   *)
(*  - an order's volume is a string, modelled as a sequence of characters  *)
(*    so that str.isdigit() and int() are computed, not assumed; the       *)
(*    character U+00B2 (superscript two) is written "sup2";                *)
(*  - Python floats are modelled as exact values: prices are integers (a   *)
(*    number of price ticks) and quotients are rationals [num, den] in     *)
(*    lowest terms with den > 0; rounding of binary floats is not          *)
(*    modelled;                                                            *)
(*  - a Python dict is a record [keys, at]: the insertion-ordered sequence *)
(*    of its keys and the mapping itself;                                  *)
(*  - the message text of an alert and the reason text of a signal are     *)
(*    left out (they are formatted from the other fields);                 *)
(*  - datetime.now() reads the clock `now`, which does not advance within  *)
(*    one call.                                                            *)
(***************************************************************************)
EXTENDS Integers, Sequences, FiniteSets, TLC

VARIABLES
    orders,        \* PositionCalculator.orders
    trades,        \* PositionCalculator.trades
    prices,        \* PositionCalculator.prices
    positions,     \* PositionCalculator.positions
    t0_positions,  \* PositionCalculator.t0_positions
    alerts,        \* RiskChecker.alerts
    params,        \* RiskChecker.params['max_total_position']
    called,        \* the computations performed so far in this session
    summary,       \* the dict returned by the latest get_summary()
    divisors,      \* the divisions evaluated by the latest call of each
                   \* operation: the place and the denominator
    signals,       \* T0Strategy.signals, the list generate_signals returns
    base,          \* the positions argument of generate_signals
    now,           \* the wall clock read by datetime.now()
    earlier,       \* the list returned by the call of generate_signals
                   \* before the latest one, if there was one
    again,         \* the computations known to have been called again
    raised,        \* the exception that ended the latest calculate(), if any
    df,            \* DBFParser.df: <<>> for None, else the table in a 1-tuple
    parser_orders, \* DBFParser.orders
    parse_errors,  \* DBFParser.parse_errors
    validation_errors, \* DBFParser.validation_errors
    valid,         \* what the latest DBFParser.validate() returned, in a
                   \* 1-tuple, <<>> before the first call
    matching       \* a call of _match_t0_trades run pass by pass: where it
                   \* is (pc), the lots it was given (buys, sells) and the
                   \* locals of its loop (m)

strategyVars == <<signals, base, now, earlier>>

parserVars == <<df, parser_orders, parse_errors, validation_errors, valid>>

vars == <<orders, trades, prices, positions, t0_positions, alerts, params, called,
          summary, divisors, strategyVars, again, raised, parserVars, matching>>

----------------------------------------------------------------------------
(* Bounds of the model *)

\* longest trade list loaded into the ledger
MaxTrades == 2
\* largest traded volume
MaxVol == 2
\* longest trade list loaded into the T0 matcher
MaxT0Trades == 3
\* largest number of records (orders plus trades) of a pipeline session
MaxRecords == 2
\* latest reading of the clock
MaxClock == 1
\* rows of a parsed table
MaxRows == 1
\* lots of one list given to the matcher
MaxLots == 2

----------------------------------------------------------------------------
(* Arithmetic helpers *)

Max(a, b) == IF a >= b THEN a ELSE b
Min(a, b) == IF a <= b THEN a ELSE b
Abs(a) == IF a >= 0 THEN a ELSE 0 - a

RECURSIVE GCD(_, _)
GCD(a, b) == IF b = 0 THEN a ELSE GCD(b, a % b)

\* the rational n/d (d # 0) in lowest terms with a positive denominator
Rat(n, d) ==
    LET s == IF d < 0 THEN 0 - 1 ELSE 1
        g == GCD(Abs(n), Abs(d))
    IN  [num |-> (s * n) \div g, den |-> (s * d) \div g]

RatInt(n) == [num |-> n, den |-> 1]
RatZero == RatInt(0)
RatPos(r) == r.num > 0
RatAdd(a, b) == Rat(a.num * b.den + b.num * a.den, a.den * b.den)

----------------------------------------------------------------------------
(* Python dict: insertion-ordered keys and the mapping *)

EmptyDict == [keys |-> <<>>, at |-> [k \in {} |-> 0]]
DictHas(d, k) == k \in DOMAIN d.at
DictSet(d, k, v) ==
    [keys |-> IF DictHas(d, k) THEN d.keys ELSE Append(d.keys, k),
     at   |-> [x \in (DOMAIN d.at) \cup {k} |-> IF x = k THEN v ELSE d.at[x]]]
\* the values in iteration order
DictValues(d) == [i \in 1..Len(d.keys) |-> d.at[d.keys[i]]]

----------------------------------------------------------------------------
(* Strings read as numbers: str.isdigit() and int() *)

Digits == <<"0", "1", "2", "3", "4", "5", "6", "7", "8", "9">>

\* superscript two, U+00B2: a digit for str.isdigit(), not a decimal for int()
SuperscriptTwo == "sup2"

\* the characters str.isdigit() accepts and int() rejects
OtherDigits == {SuperscriptTwo}

DigitValue(c) == CHOOSE i \in 0..9 : Digits[i + 1] = c

\* str.isdigit()
IsDigit(s) ==
    /\ Len(s) > 0
    /\ \A i \in 1..Len(s) : (\E j \in 1..10 : Digits[j] = s[i]) \/ s[i] \in OtherDigits

\* int(s) raises ValueError, for a string that str.isdigit() accepts
IntRaises(s) == \E i \in 1..Len(s) : s[i] \in OtherDigits

RECURSIVE IntOf(_)
IntOf(s) ==
    IF s = <<>> THEN 0
    ELSE 10 * IntOf(SubSeq(s, 1, Len(s) - 1)) + DigitValue(s[Len(s)])

\* int(order.volume) if order.volume.isdigit() else 0, when int() returns
OrderVolume(order) == IF IsDigit(order.volume) THEN IntOf(order.volume) ELSE 0

\* the evaluation of that expression raises ValueError
OrderRaises(order) == IsDigit(order.volume) /\ IntRaises(order.volume)

----------------------------------------------------------------------------
(* Records *)

DEFAULT == "DEFAULT"
\* a trade dict without the 'strategy' key
NoStrategyKey == "<no key>"
\* an Optional[str] that is None
None == "<None>"

Position(stock_code, account_id, strategy) ==
    [stock_code |-> stock_code, account_id |-> account_id, strategy |-> strategy,
     total_volume |-> 0, available_volume |-> 0, frozen_volume |-> 0,
     buy_volume |-> 0, sell_volume |-> 0,
     avg_cost |-> RatZero, current_price |-> 0, market_value |-> 0,
     profit_loss |-> RatZero, profit_loss_ratio |-> RatZero]

T0Position(stock_code, account_id, strategy) ==
    [stock_code |-> stock_code, account_id |-> account_id, strategy |-> strategy,
     base_volume |-> 0, t0_buy_volume |-> 0, t0_sell_volume |-> 0,
     t0_completed |-> 0, t0_pending |-> 0, t0_profit |-> 0,
     avg_buy_price |-> 0, avg_sell_price |-> 0]

\* f"{stock_code}_{account_id}_{strategy}"
MakePositionKey(stock_code, account_id, strategy) ==
    stock_code \o "_" \o account_id \o "_" \o strategy

\* trade.get('strategy', 'DEFAULT')
TradeStrategy(trade) ==
    IF trade.strategy = NoStrategyKey THEN DEFAULT ELSE trade.strategy

\* order.strategy or 'DEFAULT'
OrderStrategy(order) ==
    IF order.strategy = None \/ order.strategy = "" THEN DEFAULT ELSE order.strategy

TradeKey(trade) ==
    MakePositionKey(trade.stock_code, trade.account_id, TradeStrategy(trade))

OrderKey(order) ==
    MakePositionKey(order.stock_code, order.account_id, OrderStrategy(order))

----------------------------------------------------------------------------
(* PositionCalculator._calculate_from_trades *)

\* a plausible slip: the mean of the old cost and the new price, unweighted
BuyAvgCostUnweighted(avg_cost, total_volume, price, volume) ==
    IF total_volume + volume > 0
    THEN Rat(avg_cost.num + price * avg_cost.den, 2 * avg_cost.den)
    ELSE RatZero

\* total_cost / pos.total_volume if pos.total_volume > 0 else 0, with
\* total_cost = pos.avg_cost * pos.total_volume + price * volume
BuyAvgCost(avg_cost, total_volume, price, volume) ==
    IF total_volume + volume > 0
    THEN Rat(avg_cost.num * total_volume + price * volume * avg_cost.den,
             avg_cost.den * (total_volume + volume))
    ELSE RatZero

\* a plausible slip: the sale is subtracted without the floor at zero
SellVolumeUnclamped(total_volume, volume) == total_volume - volume

\* max(0, pos.total_volume - volume)
SellVolume(total_volume, volume) == Max(0, total_volume - volume)

\* the body of the loop for one trade, on that trade's Position
ApplyTrade(pos, trade, px) ==
    LET p1 == IF trade.direction = "BUY"
              THEN [pos EXCEPT
                      !.avg_cost = BuyAvgCost(pos.avg_cost, pos.total_volume,
                                              trade.price, trade.volume),
                      !.total_volume = pos.total_volume + trade.volume]
              ELSE IF trade.direction = "SELL"
              THEN [pos EXCEPT
                      !.total_volume = SellVolume(pos.total_volume, trade.volume)]
              ELSE pos
    IN  IF trade.stock_code \in DOMAIN px
        THEN [p1 EXCEPT !.current_price = px[trade.stock_code]]
        ELSE p1

\* a plausible slip: a new Position starts from the holding of the Position
\* created before it
TradeStepLeaky(ps, trade, px) ==
    LET key == TradeKey(trade)
        fresh == Position(trade.stock_code, trade.account_id, TradeStrategy(trade))
        pos == IF DictHas(ps, key) THEN ps.at[key]
               ELSE IF ps.keys = <<>> THEN fresh
               ELSE [fresh EXCEPT
                       !.total_volume = ps.at[ps.keys[Len(ps.keys)]].total_volume]
    IN  DictSet(ps, key, ApplyTrade(pos, trade, px))

TradeStep(ps, trade, px) ==
    LET key == TradeKey(trade)
        pos == IF DictHas(ps, key) THEN ps.at[key]
               ELSE Position(trade.stock_code, trade.account_id, TradeStrategy(trade))
    IN  DictSet(ps, key, ApplyTrade(pos, trade, px))

RECURSIVE CalculateFromTrades(_, _, _)
CalculateFromTrades(ps, ts, px) ==
    IF ts = <<>> THEN ps
    ELSE CalculateFromTrades(TradeStep(ps, Head(ts), px), Tail(ts), px)

----------------------------------------------------------------------------
(* PositionCalculator._get_order_direction, _calculate_frozen_from_orders *)

\* DBFOrder.get_direction with the default of the ledger
GetDirectionDefaultBuy(order) ==
    IF order.price_type \in {"18", "1", "BUY"} THEN "BUY"
    ELSE IF order.price_type \in {"19", "2", "SELL"} THEN "SELL"
    ELSE "BUY"

\* DBFOrder.get_direction
GetDirection(order) ==
    IF order.price_type \in {"18", "1", "BUY"} THEN "BUY"
    ELSE IF order.price_type \in {"19", "2", "SELL"} THEN "SELL"
    ELSE "UNKNOWN"

\* PositionCalculator._get_order_direction
GetOrderDirection(order) ==
    IF order.price_type \in {"18", "1", "BUY"} THEN "BUY"
    ELSE IF order.price_type \in {"19", "2", "SELL"} THEN "SELL"
    ELSE "BUY"

ApplyOrder(pos, order) ==
    LET volume == OrderVolume(order)
        direction == GetOrderDirection(order)
    IN  IF direction = "BUY"
        THEN [pos EXCEPT !.buy_volume = pos.buy_volume + volume,
                         !.frozen_volume = pos.frozen_volume + volume]
        ELSE IF direction = "SELL"
        THEN [pos EXCEPT !.sell_volume = pos.sell_volume + volume,
                         !.frozen_volume = pos.frozen_volume + volume]
        ELSE pos

OrderStep(ps, order) ==
    LET key == OrderKey(order)
        pos == IF DictHas(ps, key) THEN ps.at[key]
               ELSE Position(order.stock_code, order.account_id, OrderStrategy(order))
    IN  DictSet(ps, key, ApplyOrder(pos, order))

RECURSIVE CalculateFrozenFromOrders(_, _)
CalculateFrozenFromOrders(ps, os) ==
    IF os = <<>> THEN ps
    ELSE CalculateFrozenFromOrders(OrderStep(ps, Head(os)), Tail(os))

----------------------------------------------------------------------------
(* PositionCalculator._calculate_market_value_and_pl *)

\* a plausible slip: the frozen volume is subtracted without the floor at zero
AvailableVolumeUnclamped(total_volume, frozen_volume) == total_volume - frozen_volume

\* max(0, pos.total_volume - pos.frozen_volume)
AvailableVolume(total_volume, frozen_volume) == Max(0, total_volume - frozen_volume)

\* pos.total_volume * pos.current_price
MarketValue(total_volume, current_price) == total_volume * current_price

\* a plausible slip: the cost is tested for being non-zero, not positive
ProfitLossGuardNonZero(pos) == pos.total_volume > 0 /\ pos.avg_cost.num # 0

\* if pos.total_volume > 0 and pos.avg_cost > 0
ProfitLossGuard(pos) == pos.total_volume > 0 /\ RatPos(pos.avg_cost)

MarketValueAndPl(pos) ==
    LET guarded == ProfitLossGuard(pos)
        \* current_price - avg_cost
        diff == Rat(pos.current_price * pos.avg_cost.den - pos.avg_cost.num,
                    pos.avg_cost.den)
    IN  [pos EXCEPT
           !.market_value = MarketValue(pos.total_volume, pos.current_price),
           !.profit_loss = IF guarded
                           THEN Rat(diff.num * pos.total_volume, diff.den)
                           ELSE pos.profit_loss,
           !.profit_loss_ratio = IF guarded
                                 THEN Rat(diff.num * pos.avg_cost.den,
                                          diff.den * pos.avg_cost.num)
                                 ELSE pos.profit_loss_ratio,
           !.available_volume = AvailableVolume(pos.total_volume, pos.frozen_volume)]

CalculateMarketValueAndPl(ps) ==
    [keys |-> ps.keys, at |-> [k \in DOMAIN ps.at |-> MarketValueAndPl(ps.at[k])]]

\* the three passes of calculate on a mapping
CalculateOn(ps, os, ts, px) ==
    CalculateMarketValueAndPl(CalculateFrozenFromOrders(CalculateFromTrades(ps, ts, px), os))

\* PositionCalculator.calculate: the three passes on an empty mapping
CalculatePositions(os, ts, px) == CalculateOn(EmptyDict, os, ts, px)

\* the place in the list of the first order whose volume makes int() raise,
\* 0 if there is none
RaisingOrder(os) ==
    IF \E i \in 1..Len(os) : OrderRaises(os[i])
    THEN CHOOSE i \in 1..Len(os) :
            OrderRaises(os[i]) /\ \A j \in 1..(i - 1) : ~OrderRaises(os[j])
    ELSE 0

\* the mapping calculate leaves behind when int() raises at the n-th order:
\* the trades and the orders before it are folded, the Position of the n-th
\* order exists, the third pass has not run
CalculateRaisedOn(ps, os, ts, px) ==
    LET n == RaisingOrder(os)
        folded == CalculateFrozenFromOrders(CalculateFromTrades(ps, ts, px),
                                            SubSeq(os, 1, n - 1))
        key == OrderKey(os[n])
    IN  IF DictHas(folded, key) THEN folded
        ELSE DictSet(folded, key,
                     Position(os[n].stock_code, os[n].account_id, OrderStrategy(os[n])))

NoError == "<no error>"

\* a plausible slip: the mapping of the previous call is kept
PositionsKept(old) == old

\* self.positions = {}
PositionsReset(old) == EmptyDict

----------------------------------------------------------------------------
(* PositionCalculator.get_summary *)

RECURSIVE SumMarketValue(_)
SumMarketValue(ps) ==
    IF ps = <<>> THEN 0 ELSE Head(ps).market_value + SumMarketValue(Tail(ps))

RECURSIVE SumProfitLoss(_)
SumProfitLoss(ps) ==
    IF ps = <<>> THEN RatZero ELSE RatAdd(Head(ps).profit_loss, SumProfitLoss(Tail(ps)))

GetSummary(ps) ==
    IF ps.keys = <<>> THEN [total_positions |-> 0]
    ELSE LET total_market_value == SumMarketValue(DictValues(ps))
             total_profit_loss == SumProfitLoss(DictValues(ps))
         IN  [total_positions |-> Len(ps.keys),
              total_market_value |-> total_market_value,
              total_profit_loss |-> total_profit_loss,
              profit_loss_ratio |->
                  IF total_market_value > 0
                  THEN Rat(total_profit_loss.num,
                           total_profit_loss.den * total_market_value)
                  ELSE RatZero]

----------------------------------------------------------------------------
(* PositionCalculator._match_t0_trades *)

\* one pass of the while loop that breaks only on match_volume = 0
MatchStepNonZero(m) ==
    LET buy == m.buys[m.buy_idx + 1]
        sell == m.sells[m.sell_idx + 1]
        match_volume == Min(buy.volume, sell.volume)
        buy_left == buy.volume - match_volume
        sell_left == sell.volume - match_volume
    IN  IF match_volume # 0
        THEN [m EXCEPT
                !.profit = m.profit + (sell.price - buy.price) * match_volume,
                !.completed = m.completed + match_volume,
                !.buys[m.buy_idx + 1].volume = buy_left,
                !.sells[m.sell_idx + 1].volume = sell_left,
                !.buy_idx = IF buy_left = 0 THEN m.buy_idx + 1 ELSE m.buy_idx,
                !.sell_idx = IF sell_left = 0 THEN m.sell_idx + 1 ELSE m.sell_idx]
        ELSE [m EXCEPT !.running = FALSE]

\* one pass of the while loop on the state [buys, sells, buy_idx, sell_idx,
\* completed, profit, running]; indices are 0-based as in the code
MatchStep(m) ==
    LET buy == m.buys[m.buy_idx + 1]
        sell == m.sells[m.sell_idx + 1]
        match_volume == Min(buy.volume, sell.volume)
        buy_left == buy.volume - match_volume
        sell_left == sell.volume - match_volume
    IN  IF match_volume > 0
        THEN [m EXCEPT
                !.profit = m.profit + (sell.price - buy.price) * match_volume,
                !.completed = m.completed + match_volume,
                !.buys[m.buy_idx + 1].volume = buy_left,
                !.sells[m.sell_idx + 1].volume = sell_left,
                !.buy_idx = IF buy_left = 0 THEN m.buy_idx + 1 ELSE m.buy_idx,
                !.sell_idx = IF sell_left = 0 THEN m.sell_idx + 1 ELSE m.sell_idx]
        ELSE [m EXCEPT !.running = FALSE]

\* while buy_idx < len(buys) and sell_idx < len(sells)
MatchGuard(m) ==
    m.running /\ m.buy_idx < Len(m.buys) /\ m.sell_idx < Len(m.sells)

RECURSIVE MatchLoop(_)
MatchLoop(m) == IF MatchGuard(m) THEN MatchLoop(MatchStep(m)) ELSE m

\* the locals before the first pass
MatchStart(buys, sells) ==
    [buys |-> buys, sells |-> sells, buy_idx |-> 0, sell_idx |-> 0,
     completed |-> 0, profit |-> 0, running |-> TRUE]

MatchT0Trades(buys, sells) == MatchLoop(MatchStart(buys, sells))

----------------------------------------------------------------------------
(* PositionCalculator.calculate_t0 *)

\* list.sort(key=trade_time): a stable insertion sort
RECURSIVE InsertByTime(_, _)
InsertByTime(sorted, t) ==
    IF sorted = <<>> THEN <<t>>
    ELSE IF Head(sorted).trade_time <= t.trade_time
         THEN <<Head(sorted)>> \o InsertByTime(Tail(sorted), t)
         ELSE <<t>> \o sorted

RECURSIVE SortByTime(_)
SortByTime(ts) ==
    IF ts = <<>> THEN <<>>
    ELSE InsertByTime(SortByTime(SubSeq(ts, 1, Len(ts) - 1)), ts[Len(ts)])

\* trade_groups: key -> the trades of that key, in list order
RECURSIVE TradeGroups(_, _)
TradeGroups(groups, ts) ==
    IF ts = <<>> THEN groups
    ELSE LET key == TradeKey(Head(ts))
             old == IF DictHas(groups, key) THEN groups.at[key] ELSE <<>>
         IN  TradeGroups(DictSet(groups, key, Append(old, Head(ts))), Tail(ts))

Lot(trade) == [volume |-> trade.volume, price |-> trade.price]

RECURSIVE LotsOf(_, _)
LotsOf(ts, direction) ==
    IF ts = <<>> THEN <<>>
    ELSE IF Head(ts).direction = direction
         THEN <<Lot(Head(ts))>> \o LotsOf(Tail(ts), direction)
         ELSE LotsOf(Tail(ts), direction)

RECURSIVE SumVolume(_)
SumVolume(lots) == IF lots = <<>> THEN 0 ELSE Head(lots).volume + SumVolume(Tail(lots))

\* abs(t0_pos.t0_buy_volume - t0_pos.t0_sell_volume)
T0Pending(buy_volume, sell_volume) == Abs(buy_volume - sell_volume)

\* the T0Position of one group of trades
T0OfGroup(group) ==
    LET sorted == SortByTime(group)
        buy_orders == LotsOf(sorted, "BUY")
        sell_orders == LotsOf(sorted, "SELL")
        m == MatchT0Trades(buy_orders, sell_orders)
        t0_pos == T0Position(sorted[1].stock_code, sorted[1].account_id,
                             TradeStrategy(sorted[1]))
    IN  [t0_pos EXCEPT
           !.t0_buy_volume = SumVolume(buy_orders),
           !.t0_sell_volume = SumVolume(sell_orders),
           !.t0_completed = m.completed,
           !.t0_profit = m.profit,
           !.t0_pending = T0Pending(SumVolume(buy_orders), SumVolume(sell_orders))]

CalculateT0Positions(ts) ==
    LET groups == TradeGroups(EmptyDict, ts)
    IN  [keys |-> groups.keys,
         at |-> [k \in DOMAIN groups.at |-> T0OfGroup(groups.at[k])]]

----------------------------------------------------------------------------
(* RiskChecker *)

\* DEFAULT_RISK_PARAMS['max_single_stock_ratio'] = 0.2 = 1/5
MaxSingleStockRatioNum == 1
MaxSingleStockRatioDen == 5
\* DEFAULT_RISK_PARAMS['stop_loss_ratio'] = -0.05 = -1/20
StopLossDen == 20
\* DEFAULT_RISK_PARAMS['take_profit_ratio'] = 0.1 = 1/10
TakeProfitDen == 10
\* the warning level max_limit * 0.8 = max_limit * 4/5
WarnNum == 4
WarnDen == 5

RiskAlert(level, code, stock_code, account_id, current_value, limit_value) ==
    [level |-> level, code |-> code, stock_code |-> stock_code,
     account_id |-> account_id, current_value |-> current_value,
     limit_value |-> limit_value]

\* sum(p.market_value for p in positions.values())
TotalValue(ps) == SumMarketValue(DictValues(ps))

\* a plausible slip: the limit itself already counts as exceeded
TotalPositionAlertsInclusive(total_value, max_limit) ==
    IF total_value >= max_limit
    THEN <<RiskAlert("ERROR", "RISK_TOTAL_POSITION_EXCEEDED", None, None,
                     RatInt(total_value), RatInt(max_limit))>>
    ELSE IF total_value * WarnDen > max_limit * WarnNum
    THEN <<RiskAlert("WARNING", "RISK_TOTAL_POSITION_HIGH", None, None,
                     RatInt(total_value), RatInt(max_limit))>>
    ELSE <<>>

\* RiskChecker._check_total_position, on the total and the limit
TotalPositionAlerts(total_value, max_limit) ==
    IF total_value > max_limit
    THEN <<RiskAlert("ERROR", "RISK_TOTAL_POSITION_EXCEEDED", None, None,
                     RatInt(total_value), RatInt(max_limit))>>
    ELSE IF total_value * WarnDen > max_limit * WarnNum
    THEN <<RiskAlert("WARNING", "RISK_TOTAL_POSITION_HIGH", None, None,
                     RatInt(total_value), RatInt(max_limit))>>
    ELSE <<>>

CheckTotalPosition(ps, max_limit) == TotalPositionAlerts(TotalValue(ps), max_limit)

\* stock_values: stock_code -> summed market_value, in order of first occurrence
RECURSIVE StockValues(_, _)
StockValues(sv, ps) ==
    IF ps = <<>> THEN sv
    ELSE LET p == Head(ps)
             old == IF DictHas(sv, p.stock_code) THEN sv.at[p.stock_code] ELSE 0
         IN  StockValues(DictSet(sv, p.stock_code, old + p.market_value), Tail(ps))

RECURSIVE ConcentrationAlerts(_, _, _)
ConcentrationAlerts(sv, i, total_value) ==
    IF i > Len(sv.keys) THEN <<>>
    ELSE LET stock_code == sv.keys[i]
             value == sv.at[stock_code]
             ratio == Rat(value, total_value)
             rest == ConcentrationAlerts(sv, i + 1, total_value)
         IN  IF ratio.num * MaxSingleStockRatioDen > MaxSingleStockRatioNum * ratio.den
             THEN <<RiskAlert("ERROR", "RISK_CONCENTRATION_EXCEEDED", stock_code, None,
                              ratio,
                              Rat(MaxSingleStockRatioNum, MaxSingleStockRatioDen))>>
                  \o rest
             ELSE rest

\* RiskChecker._check_concentration
CheckConcentration(ps) ==
    IF TotalValue(ps) = 0 THEN <<>>
    ELSE ConcentrationAlerts(StockValues(EmptyDict, DictValues(ps)), 1, TotalValue(ps))

RECURSIVE ProfitLossAlerts(_)
ProfitLossAlerts(ps) ==
    IF ps = <<>> THEN <<>>
    ELSE LET pos == Head(ps)
             r == pos.profit_loss_ratio
             rest == ProfitLossAlerts(Tail(ps))
         IN  IF r.num * StopLossDen < 0 - r.den
             THEN <<RiskAlert("WARNING", "RISK_STOP_LOSS", pos.stock_code,
                              pos.account_id, r, Rat(0 - 1, StopLossDen))>> \o rest
             ELSE IF r.num * TakeProfitDen > r.den
             THEN <<RiskAlert("INFO", "RISK_TAKE_PROFIT", pos.stock_code,
                              pos.account_id, r, Rat(1, TakeProfitDen))>> \o rest
             ELSE rest

\* RiskChecker._check_profit_loss
CheckProfitLoss(ps) == ProfitLossAlerts(DictValues(ps))

\* a plausible slip: the later checks are skipped once the total-exposure check
\* has raised an alert
RiskCheckAlertsShortCircuit(ps, max_limit) ==
    IF CheckTotalPosition(ps, max_limit) # <<>>
    THEN CheckTotalPosition(ps, max_limit)
    ELSE CheckConcentration(ps) \o CheckProfitLoss(ps)

\* self.alerts = []
AlertsReset(old) == <<>>

\* RiskChecker.check: the three checks, in this order, on an empty alert list
RiskCheckAlerts(ps, max_limit) ==
    CheckTotalPosition(ps, max_limit) \o CheckConcentration(ps) \o CheckProfitLoss(ps)

----------------------------------------------------------------------------
(* T0Strategy *)

\* DEFAULT_PARAMS['sell_premium'] = 0.002 = 2/1000
SellPremiumNum == 2
SellPremiumDen == 1000
\* DEFAULT_PARAMS['buy_discount'] = 0.002 = 2/1000
BuyDiscountNum == 2
BuyDiscountDen == 1000
\* DEFAULT_PARAMS['min_t0_volume']
MinT0Volume == 100
\* DEFAULT_PARAMS['max_t0_ratio'] = 0.5 = 1/2
MaxT0RatioNum == 1
MaxT0RatioDen == 2
\* the cap of min(available_for_t0, max_t0_volume, 1000)
MaxT0Target == 1000

T0Signal(stock_code, account_id, strategy, signal_type, target_volume, target_price, priority, created_at) ==
    [stock_code |-> stock_code, account_id |-> account_id, strategy |-> strategy,
     signal_type |-> signal_type, target_volume |-> target_volume,
     target_price |-> target_price, priority |-> priority,
     created_at |-> created_at]

\* current_price * (1 + self.params['sell_premium'])
SellPrice(current_price) ==
    Rat(current_price * (SellPremiumDen + SellPremiumNum), SellPremiumDen)

\* current_price * (1 - self.params['buy_discount'])
BuyPrice(current_price) ==
    Rat(current_price * (BuyDiscountDen - BuyDiscountNum), BuyDiscountDen)

\* a plausible slip: the two branches are exchanged
PendingSignalsSwapped(t0_pos, current_price, at) ==
    IF t0_pos.t0_buy_volume > t0_pos.t0_sell_volume
    THEN <<T0Signal(t0_pos.stock_code, t0_pos.account_id, t0_pos.strategy, "BUY",
                    t0_pos.t0_pending, BuyPrice(current_price), 2, at)>>
    ELSE <<T0Signal(t0_pos.stock_code, t0_pos.account_id, t0_pos.strategy, "SELL",
                    t0_pos.t0_pending, SellPrice(current_price), 2, at)>>

\* T0Strategy._generate_pending_signals: the signals it appends
PendingSignals(t0_pos, current_price, at) ==
    IF t0_pos.t0_buy_volume > t0_pos.t0_sell_volume
    THEN <<T0Signal(t0_pos.stock_code, t0_pos.account_id, t0_pos.strategy, "SELL",
                    t0_pos.t0_pending, SellPrice(current_price), 2, at)>>
    ELSE <<T0Signal(t0_pos.stock_code, t0_pos.account_id, t0_pos.strategy, "BUY",
                    t0_pos.t0_pending, BuyPrice(current_price), 2, at)>>

\* int(n / d): the quotient truncated towards zero
IntTrunc(n, d) == IF n >= 0 THEN n \div d ELSE 0 - ((0 - n) \div d)

\* a plausible slip: the cap of 1000 shares is left out
BaseT0SignalsUncapped(base_pos, t0_pos, current_price, at) ==
    LET available_for_t0 == base_pos.available_volume - t0_pos.t0_buy_volume
        max_t0_volume == IntTrunc(base_pos.total_volume * MaxT0RatioNum, MaxT0RatioDen)
        target_volume == Min(available_for_t0, max_t0_volume)
    IN  IF available_for_t0 >= MinT0Volume /\ target_volume >= MinT0Volume
        THEN <<T0Signal(base_pos.stock_code, base_pos.account_id, base_pos.strategy,
                        "SELL", target_volume, SellPrice(current_price), 3, at)>>
        ELSE <<>>

\* T0Strategy._generate_base_t0_signals: the signals it appends
BaseT0Signals(base_pos, t0_pos, current_price, at) ==
    LET available_for_t0 == base_pos.available_volume - t0_pos.t0_buy_volume
        max_t0_volume == IntTrunc(base_pos.total_volume * MaxT0RatioNum, MaxT0RatioDen)
        target_volume == Min(Min(available_for_t0, max_t0_volume), MaxT0Target)
    IN  IF available_for_t0 >= MinT0Volume /\ target_volume >= MinT0Volume
        THEN <<T0Signal(base_pos.stock_code, base_pos.account_id, base_pos.strategy,
                        "SELL", target_volume, SellPrice(current_price), 3, at)>>
        ELSE <<>>

\* f"{stock_code}_{pos.account_id}_{pos.strategy}"
BasePositionKey(pos) == pos.stock_code \o "_" \o pos.account_id \o "_" \o pos.strategy

\* the body of the loop of generate_signals for one T0Position
SignalsOfPosition(pos, px, bs, at) ==
    LET current_price == IF pos.stock_code \in DOMAIN px THEN px[pos.stock_code] ELSE 0
        pos_key == BasePositionKey(pos)
    IN  (IF pos.t0_pending > 0 THEN PendingSignals(pos, current_price, at) ELSE <<>>)
        \o (IF bs.keys # <<>> /\ DictHas(bs, pos_key)
            THEN BaseT0Signals(bs.at[pos_key], pos, current_price, at)
            ELSE <<>>)

\* the signals appended by the loop over t0_positions.items(), from the i-th on
RECURSIVE GeneratedSignals(_, _, _, _, _)
GeneratedSignals(t0, i, px, bs, at) ==
    IF i > Len(t0.keys) THEN <<>>
    ELSE SignalsOfPosition(t0.at[t0.keys[i]], px, bs, at)
         \o GeneratedSignals(t0, i + 1, px, bs, at)

\* a plausible slip: a sort that puts a signal before those of equal priority
RECURSIVE InsertByPriorityUnstable(_, _)
InsertByPriorityUnstable(sorted, x) ==
    IF sorted = <<>> THEN <<x>>
    ELSE IF Head(sorted).priority < x.priority
         THEN <<Head(sorted)>> \o InsertByPriorityUnstable(Tail(sorted), x)
         ELSE <<x>> \o sorted

RECURSIVE SortByPriorityUnstable(_)
SortByPriorityUnstable(xs) ==
    IF xs = <<>> THEN <<>>
    ELSE InsertByPriorityUnstable(SortByPriorityUnstable(SubSeq(xs, 1, Len(xs) - 1)),
                                  xs[Len(xs)])

\* self.signals.sort(key=lambda x: x.priority): a stable insertion sort
RECURSIVE InsertByPriority(_, _)
InsertByPriority(sorted, x) ==
    IF sorted = <<>> THEN <<x>>
    ELSE IF Head(sorted).priority <= x.priority
         THEN <<Head(sorted)>> \o InsertByPriority(Tail(sorted), x)
         ELSE <<x>> \o sorted

RECURSIVE SortByPriority(_)
SortByPriority(xs) ==
    IF xs = <<>> THEN <<>>
    ELSE InsertByPriority(SortByPriority(SubSeq(xs, 1, Len(xs) - 1)), xs[Len(xs)])

\* a plausible slip: the list of the previous call is kept
SignalsKept(old) == old

\* self.signals = []
SignalsReset(old) == <<>>

\* T0Strategy.generate_signals: the list it leaves in self.signals and returns
GenerateSignalsOn(old, t0, px, bs, at) ==
    SortByPriority(SignalsReset(old) \o GeneratedSignals(t0, 1, px, bs, at))

----------------------------------------------------------------------------
(* DBFParser and DBFOrder.validate (src/src/dbf_parser.py).  In this part   *)
(* every column name, cell and order field is a text: a sequence of         *)
(* characters, a character outside ASCII being written by its code point.   *)
(* The file exists and has a supported suffix; its reader either returns a  *)
(* table or raises.  A cell is what str() and pd.notna() return for it.     *)
(* The optional fields of an order take no part in validation and are left  *)
(* out of the order record; the text of an error message is left out.       *)

\* DBFParser.FIELD_MAPPING, in the order of the dict
FIELD_MAPPING ==
    <<
      <<<<"U+4E0B", "U+5355", "U+7C7B", "U+578B">>,
        <<"o", "r", "d", "e", "r", "_", "t", "y", "p", "e">>>>,
      <<<<"U+59D4", "U+6258", "U+4EF7", "U+683C", "U+7C7B", "U+578B">>,
        <<"p", "r", "i", "c", "e", "_", "t", "y", "p", "e">>>>,
      <<<<"U+59D4", "U+6258", "U+4EF7", "U+683C">>,
        <<"m", "o", "d", "e", "_", "p", "r", "i", "c", "e">>>>,
      <<<<"U+8BC1", "U+5238", "U+4EE3", "U+7801">>,
        <<"s", "t", "o", "c", "k", "_", "c", "o", "d", "e">>>>,
      <<<<"U+59D4", "U+6258", "U+6570", "U+91CF">>,
        <<"v", "o", "l", "u", "m", "e">>>>,
      <<<<"U+4E0B", "U+5355", "U+8D44", "U+91D1", "U+8D26", "U+53F7">>,
        <<"a", "c", "c", "o", "u", "n", "t", "_", "i", "d">>>>,
      <<<<"U+8D26", "U+53F7", "U+7C7B", "U+522B">>,
        <<"a", "c", "t", "_", "t", "y", "p", "e">>>>,
      <<<<"U+8D26", "U+53F7", "U+7C7B", "U+578B">>,
        <<"b", "r", "o", "k", "e", "r", "t", "y", "p", "e">>>>,
      <<<<"U+7B56", "U+7565", "U+5907", "U+6CE8">>,
        <<"s", "t", "r", "a", "t", "e", "g", "y">>>>,
      <<<<"U+6295", "U+8D44", "U+5907", "U+6CE8">>,
        <<"n", "o", "t", "e">>>>,
      <<<<"U+6295", "U+8D44", "U+5907", "U+6CE8", " ", "2">>,
        <<"n", "o", "t", "e", "1">>>>,
      <<<<"U+4EA4", "U+6613", "U+53C2", "U+6570">>,
        <<"t", "r", "a", "d", "e", "p", "a", "r", "a", "m">>>>,
      <<<<"U+6307", "U+4EE4", "U+7F16", "U+53F7">>,
        <<"c", "o", "m", "m", "a", "n", "d", "_", "i", "d">>>>,
      <<<<"U+6587", "U+4EF6", "U+8DEF", "U+5F84">>,
        <<"b", "a", "s", "k", "e", "t", "p", "a", "t", "h">>>>,
      <<<<"U+6587", "U+4EF6", "U+7EDD", "U+5BF9", "U+8DEF", "U+5F84">>,
        <<"b", "a", "s", "k", "e", "t", "p", "a", "t", "h">>>>,
      <<<<"U+5199", "U+5165", "U+65F6", "U+95F4">>,
        <<"i", "n", "s", "e", "r", "t", "t", "i", "m", "e">>>>,
      <<<<"U+989D", "U+5916", "U+53C2", "U+6570">>,
        <<"e", "x", "t", "r", "a", "p", "a", "r", "a", "m">>>>,
      <<<<"U+6279", "U+6B21", " ", "I", "D">>,
        <<"b", "a", "t", "c", "h", "_", "i", "d">>>>,
      <<<<"U+5E8F", "U+53F7">>,
        <<"i", "n", "d", "e", "x">>>>,
      <<<<"U+5B57", "U+6BB5", "U+540D">>,
        <<"f", "i", "e", "l", "d", "_", "n", "a", "m", "e">>>>,
      <<<<"U+7C7B", "U+578B">>,
        <<"t", "y", "p", "e">>>>,
      <<<<"U+8BF4", "U+660E">>,
        <<"d", "e", "s", "c", "r", "i", "p", "t", "i", "o", "n">>>>,
      <<<<"U+5FC5", "U+586B">>,
        <<"r", "e", "q", "u", "i", "r", "e", "d">>>>,
      <<<<"U+5907", "U+6CE8">>,
        <<"r", "e", "m", "a", "r", "k">>>>,
      <<<<"U+8868", "U+5934", "U+5FC5", "U+6709">>,
        <<"h", "e", "a", "d", "e", "r", "_", "r", "e", "q", "u", "i", "r", "e", "d">>>>
    >>

\* DBFParser.REQUIRED_FIELDS, and the same list in DBFOrder.validate
REQUIRED_FIELDS == <<"order_type", "price_type", "stock_code", "volume", "account_id">>

\* the column name of each field
FieldText ==
    [order_type |-> <<"o", "r", "d", "e", "r", "_", "t", "y", "p", "e">>,
     price_type |-> <<"p", "r", "i", "c", "e", "_", "t", "y", "p", "e">>,
     stock_code |-> <<"s", "t", "o", "c", "k", "_", "c", "o", "d", "e">>,
     volume |-> <<"v", "o", "l", "u", "m", "e">>,
     account_id |-> <<"a", "c", "c", "o", "u", "n", "t", "_", "i", "d">>,
     note |-> <<"n", "o", "t", "e">>]

\* str.strip()
RECURSIVE LStrip(_)
LStrip(s) == IF s # <<>> /\ Head(s) = " " THEN LStrip(Tail(s)) ELSE s

RECURSIVE RStrip(_)
RStrip(s) == IF s # <<>> /\ s[Len(s)] = " " THEN RStrip(SubSeq(s, 1, Len(s) - 1)) ELSE s

Strip(s) == RStrip(LStrip(s))

\* b in a, for two strings
Contains(a, b) ==
    \E i \in 0..(Len(a) - Len(b)) : SubSeq(a, i + 1, i + Len(b)) = b

\* new_columns[col_clean] of _normalize_columns: the direct match, else the
\* first entry of the mapping that holds the name or is held by it, else the
\* name itself
NewColumnName(col_clean) ==
    LET direct == {i \in 1..Len(FIELD_MAPPING) : FIELD_MAPPING[i][1] = col_clean}
        fuzzy == {i \in 1..Len(FIELD_MAPPING) :
                     \/ Contains(col_clean, FIELD_MAPPING[i][1])
                     \/ Contains(FIELD_MAPPING[i][1], col_clean)}
        first(S) == CHOOSE i \in S : \A j \in S : i <= j
    IN  IF direct # {} THEN FIELD_MAPPING[first(direct)][2]
        ELSE IF fuzzy # {} THEN FIELD_MAPPING[first(fuzzy)][2]
        ELSE col_clean

\* df.rename(columns=new_columns): new_columns is keyed by the stripped names,
\* so a column is renamed when its own name is one of them
RenamedColumn(columns, col) ==
    IF \E i \in 1..Len(columns) : Strip(columns[i]) = col
    THEN NewColumnName(col)
    ELSE col

\* DBFParser._normalize_columns
NormalizeColumns(table) ==
    LET renamed == [i \in 1..Len(table.columns) |->
                        RenamedColumn(table.columns, table.columns[i])]
    IN  [columns |-> renamed,
         rows |-> [r \in 1..Len(table.rows) |->
                      [c \in {renamed[i] : i \in 1..Len(renamed)} |->
                          table.rows[r][table.columns[
                              CHOOSE i \in 1..Len(renamed) : renamed[i] = c]]]]]

HasColumn(table, name) == \E i \in 1..Len(table.columns) : table.columns[i] = name

\* df.empty
TableEmpty(table) == Len(table.columns) = 0 \/ Len(table.rows) = 0

\* str(row.get(field, '')).strip()
RowText(table, row, field) ==
    IF HasColumn(table, FieldText[field]) THEN Strip(row[FieldText[field]].text)
    ELSE <<>>

\* the DBFOrder built from one row
DBFOrder(table, row) ==
    [order_type |-> RowText(table, row, "order_type"),
     price_type |-> RowText(table, row, "price_type"),
     stock_code |-> RowText(table, row, "stock_code"),
     volume     |-> RowText(table, row, "volume"),
     account_id |-> RowText(table, row, "account_id")]

\* DBFParser._convert_to_orders on a table that was read: the table it leaves
\* in self.df, the orders and the parse errors it appends
ConvertToOrders(table) ==
    IF TableEmpty(table)
    THEN [df |-> table, orders |-> <<>>, errors |-> <<>>]
    ELSE LET normalized == NormalizeColumns(table)
         IN  IF ~(\E i \in 1..Len(REQUIRED_FIELDS) :
                     HasColumn(normalized, FieldText[REQUIRED_FIELDS[i]]))
             THEN [df |-> normalized, orders |-> <<>>, errors |-> <<"no order columns">>]
             ELSE [df |-> normalized,
                   orders |-> [r \in 1..Len(normalized.rows) |->
                                  DBFOrder(normalized, normalized.rows[r])],
                   errors |-> <<>>]

\* re.match(r'^[0-9]{6}$', s)
SixDigits(s) ==
    Len(s) = 6 /\ \A i \in 1..6 : \E j \in 1..10 : Digits[j] = s[i]

\* re.match(r'^(SH|SZ)[0-9]{6}$', s)
PrefixedSixDigits(s) ==
    /\ Len(s) = 8
    /\ SubSeq(s, 1, 2) \in {<<"S", "H">>, <<"S", "Z">>}
    /\ SixDigits(SubSeq(s, 3, 8))

\* valid_price_types of DBFOrder.validate
valid_price_types ==
    {<<"1", "8">>,
     <<"1", "9">>,
     <<"3">>,
     <<"6">>,
     <<"M", "1">>,
     <<"M", "2">>,
     <<"M", "5">>,
     <<"M", "6">>,
     <<"M", "8">>,
     <<"9", "0", "0", "1">>,
     <<"9", "0", "0", "2">>,
     <<"9", "0", "0", "3">>,
     <<"9", "0", "0", "4">>,
     <<"1", "3">>,
     <<"1", "7">>,
     <<"2", "4">>,
     <<"1", "0", "6">>}

\* the errors of the required fields, in the order of the list
RECURSIVE RequiredFieldErrors(_, _)
RequiredFieldErrors(order, fields) ==
    IF fields = <<>> THEN <<>>
    ELSE (IF order[Head(fields)] = <<>> \/ Strip(order[Head(fields)]) = <<>>
          THEN <<[error |-> "missing", field |-> Head(fields)]>>
          ELSE <<>>)
         \o RequiredFieldErrors(order, Tail(fields))

\* DBFOrder.validate: the list of errors
OrderErrors(order) ==
    RequiredFieldErrors(order, REQUIRED_FIELDS)
    \o (IF order.stock_code # <<>> /\ ~SixDigits(order.stock_code)
           /\ ~PrefixedSixDigits(order.stock_code)
        THEN <<[error |-> "format", field |-> "stock_code"]>> ELSE <<>>)
    \o (IF order.volume # <<>> /\ ~IsDigit(order.volume)
        THEN <<[error |-> "not a number", field |-> "volume"]>> ELSE <<>>)
    \o (IF order.price_type # <<>> /\ order.price_type \notin valid_price_types
        THEN <<[error |-> "unknown", field |-> "price_type"]>> ELSE <<>>)

\* DBFParser._validate_orders: the new validation_errors
RECURSIVE ValidateOrdersFrom(_, _)
ValidateOrdersFrom(os, i) ==
    IF i > Len(os) THEN <<>>
    ELSE [e \in 1..Len(OrderErrors(os[i])) |->
             [order |-> i, error |-> OrderErrors(os[i])[e]]]
         \o ValidateOrdersFrom(os, i + 1)

ValidateOrders(os) == ValidateOrdersFrom(os, 1)

----------------------------------------------------------------------------
(* The divisions of calculate(), check() and get_summary(): for each place  *)
(* that divides, the denominators it divides by; a guarded division that is *)
(* skipped divides by nothing                                               *)

Division(site, den) == [site |-> site, den |-> den]

CalculateSites == {"avg_cost", "profit_loss_ratio"}
CheckSites == {"warning_percent", "concentration"}
SummarySites == {"summary_ratio"}

\* total_cost / pos.total_volume if pos.total_volume > 0, at each BUY trade
TradeDivisions(ts, px) ==
    UNION {LET before == CalculateFromTrades(EmptyDict, SubSeq(ts, 1, n - 1), px)
               key == TradeKey(ts[n])
               held == IF DictHas(before, key) THEN before.at[key].total_volume ELSE 0
               total_volume == held + ts[n].volume
           IN  IF ts[n].direction = "BUY" /\ total_volume > 0
               THEN {Division("avg_cost", RatInt(total_volume))}
               ELSE {} : n \in 1..Len(ts)}

\* (pos.current_price - pos.avg_cost) / pos.avg_cost, under its guard
ProfitLossDivisions(ps) ==
    {Division("profit_loss_ratio", ps.at[k].avg_cost) :
        k \in {x \in DOMAIN ps.at : ProfitLossGuard(ps.at[x])}}

CalculateDivisions(os, ts, px) ==
    TradeDivisions(ts, px)
    \cup ProfitLossDivisions(
            CalculateFrozenFromOrders(CalculateFromTrades(EmptyDict, ts, px), os))

\* total_value / max_limit * 100 in the message of the WARNING
TotalPositionDivisions(total_value, max_limit) ==
    IF ~(total_value > max_limit) /\ total_value * WarnDen > max_limit * WarnNum
    THEN {Division("warning_percent", RatInt(max_limit))}
    ELSE {}

\* value / total_value for each stock, after the return on total_value == 0
ConcentrationDivisions(ps) ==
    IF TotalValue(ps) = 0 \/ ps.keys = <<>> THEN {}
    ELSE {Division("concentration", RatInt(TotalValue(ps)))}

RiskCheckDivisions(ps, max_limit) ==
    TotalPositionDivisions(TotalValue(ps), max_limit) \cup ConcentrationDivisions(ps)

\* total_profit_loss / total_market_value if total_market_value > 0
SummaryDivisions(ps) ==
    IF ps.keys # <<>> /\ TotalValue(ps) > 0
    THEN {Division("summary_ratio", RatInt(TotalValue(ps)))}
    ELSE {}

\* the divisions of the other operations, with those of this call
Divided(old, sites, new) == {d \in old : d.site \notin sites} \cup new

----------------------------------------------------------------------------
(* The session: construction, loading, then the computations *)

\* DEFAULT_RISK_PARAMS['max_total_position']
DefaultMaxTotalPosition == 10000000

Init ==
    /\ orders = <<>>
    /\ trades = <<>>
    /\ prices = [k \in {} |-> 0]
    /\ positions = EmptyDict
    /\ t0_positions = EmptyDict
    /\ alerts = <<>>
    /\ params = [max_total_position |-> DefaultMaxTotalPosition]
    /\ called = {}
    /\ summary = GetSummary(EmptyDict)
    /\ divisors = {}
    /\ signals = <<>>
    /\ base = EmptyDict
    /\ now = 0
    /\ earlier = <<>>
    /\ again = {}
    /\ raised = NoError
    /\ df = <<>>
    /\ parser_orders = <<>>
    /\ parse_errors = <<>>
    /\ validation_errors = <<>>
    /\ valid = <<>>
    /\ matching = [pc |-> "idle", buys |-> <<>>, sells |-> <<>>,
                   m |-> MatchStart(<<>>, <<>>)]

\* PositionCalculator.load_orders, once, before anything is computed
LoadOrders(lists) ==
    /\ called = {}
    /\ orders = <<>>
    /\ \E os \in lists : orders' = os
    /\ UNCHANGED <<trades, prices, positions, t0_positions, alerts, params, called>>
    /\ UNCHANGED <<summary, divisors, strategyVars, again>>
    /\ UNCHANGED <<raised, parserVars, matching>>

\* PositionCalculator.load_trades, once, before anything is computed
LoadTrades(lists) ==
    /\ called = {}
    /\ trades = <<>>
    /\ \E ts \in lists : trades' = ts
    /\ UNCHANGED <<orders, prices, positions, t0_positions, alerts, params, called>>
    /\ UNCHANGED <<summary, divisors, strategyVars, again>>
    /\ UNCHANGED <<raised, parserVars, matching>>

\* PositionCalculator.set_prices, once, before anything is computed
SetPrices(maps) ==
    /\ called = {}
    /\ DOMAIN prices = {}
    /\ \E px \in maps : prices' = px
    /\ UNCHANGED <<orders, trades, positions, t0_positions, alerts, params, called>>
    /\ UNCHANGED <<summary, divisors, strategyVars, again>>
    /\ UNCHANGED <<raised, parserVars, matching>>

\* PositionCalculator.calculate: one call
CalculateCall ==
    /\ positions' =
          IF RaisingOrder(orders) = 0
          THEN CalculateOn(PositionsReset(positions), orders, trades, prices)
          ELSE CalculateRaisedOn(PositionsReset(positions), orders, trades, prices)
    /\ raised' = IF RaisingOrder(orders) = 0 THEN NoError ELSE "ValueError"
    /\ called' = IF RaisingOrder(orders) = 0 THEN called \cup {"calculate"} ELSE called
    /\ divisors' = Divided(divisors, CalculateSites,
                           IF RaisingOrder(orders) = 0
                           THEN CalculateDivisions(orders, trades, prices)
                           ELSE TradeDivisions(trades, prices))
    /\ UNCHANGED <<orders, trades, prices, t0_positions, alerts, params, summary>>
    /\ UNCHANGED <<strategyVars, parserVars, matching>>

\* PositionCalculator.calculate
Calculate == CalculateCall /\ UNCHANGED again

\* PositionCalculator.calculate, called again on the same instance
CalculateAgain ==
    /\ "calculate" \in called
    /\ CalculateCall
    /\ again' = again \cup {"calculate"}

\* PositionCalculator.calculate_t0: one call
CalculateT0Call ==
    /\ t0_positions' = CalculateT0Positions(trades)
    /\ called' = called \cup {"calculate_t0"}
    /\ UNCHANGED <<orders, trades, prices, positions, alerts, params>>
    /\ UNCHANGED <<summary, divisors>>
    /\ UNCHANGED strategyVars
    /\ UNCHANGED <<raised, parserVars, matching>>

\* PositionCalculator.calculate_t0
CalculateT0 == CalculateT0Call /\ UNCHANGED again

\* PositionCalculator.calculate_t0, called again on the same instance
CalculateT0Again ==
    /\ "calculate_t0" \in called
    /\ CalculateT0Call
    /\ again' = again \cup {"calculate_t0"}

\* RiskChecker({'max_total_position': limit}).check(positions), on the result
\* of calculate()
RiskCheckCall(limits) ==
    /\ "calculate" \in called
    /\ \E limit \in limits :
          /\ params' = [max_total_position |-> limit]
          /\ alerts' = AlertsReset(alerts) \o RiskCheckAlerts(positions, limit)
          /\ divisors' = Divided(divisors, CheckSites,
                                 RiskCheckDivisions(positions, limit))
    /\ called' = called \cup {"check"}
    /\ UNCHANGED <<orders, trades, prices, positions, t0_positions, summary>>
    /\ UNCHANGED strategyVars
    /\ UNCHANGED <<raised, parserVars, matching>>

RiskCheck(limits) == RiskCheckCall(limits) /\ UNCHANGED again

\* check(positions) called again on the same RiskChecker
RiskCheckAgain ==
    /\ "check" \in called
    /\ RiskCheckCall({params.max_total_position})
    /\ again' = again \cup {"check"}

\* PositionCalculator.get_summary
Summarize ==
    /\ summary' = GetSummary(positions)
    /\ divisors' = Divided(divisors, SummarySites, SummaryDivisions(positions))
    /\ called' = called \cup {"get_summary"}
    /\ UNCHANGED <<orders, trades, prices, positions, t0_positions, alerts, params>>
    /\ UNCHANGED <<strategyVars, again>>
    /\ UNCHANGED <<raised, parserVars, matching>>

\* T0Strategy().generate_signals(t0_positions, prices, base)
GenerateSignals ==
    /\ signals' = GenerateSignalsOn(signals, t0_positions, prices, base, now)
    /\ earlier' = IF "generate_signals" \in called THEN <<signals>> ELSE earlier
    /\ called' = called \cup {"generate_signals"}
    /\ UNCHANGED <<orders, trades, prices, positions, t0_positions, alerts, params>>
    /\ UNCHANGED <<summary, divisors, base, now, again>>
    /\ UNCHANGED <<raised, parserVars, matching>>

\* time passes
Tick ==
    /\ now < MaxClock
    /\ now' = now + 1
    /\ UNCHANGED <<orders, trades, prices, positions, t0_positions, alerts, params>>
    /\ UNCHANGED <<called, summary, divisors, signals, base, earlier, again>>
    /\ UNCHANGED <<raised, parserVars, matching>>

\* DBFParser.parse on an existing file of a supported format, once: the
\* reader raises or returns a table, the table is converted, the orders are
\* validated
Parse(files) ==
    /\ "parse" \notin called
    /\ \E file \in files :
          LET converted == ConvertToOrders(file.table)
          IN  /\ df' = IF file.readable THEN <<converted.df>> ELSE df
              /\ parser_orders' =
                    IF file.readable THEN parser_orders \o converted.orders
                    ELSE parser_orders
              /\ parse_errors' =
                    IF file.readable THEN parse_errors \o converted.errors
                    ELSE Append(parse_errors, "read error")
    /\ validation_errors' = ValidateOrders(parser_orders')
    /\ called' = called \cup {"parse"}
    /\ UNCHANGED <<orders, trades, prices, positions, t0_positions, alerts, params>>
    /\ UNCHANGED <<summary, divisors, strategyVars, again, raised, valid, matching>>

\* DBFParser.validate
Validate ==
    /\ valid' = IF parser_orders = <<>> THEN <<FALSE>>
                ELSE <<ValidateOrders(parser_orders) = <<>> >>
    /\ validation_errors' = IF parser_orders = <<>> THEN validation_errors
                            ELSE ValidateOrders(parser_orders)
    /\ called' = called \cup {"validate"}
    /\ UNCHANGED <<orders, trades, prices, positions, t0_positions, alerts, params>>
    /\ UNCHANGED <<summary, divisors, strategyVars, again, raised>>
    /\ UNCHANGED <<df, parser_orders, parse_errors, matching>>

\* _match_t0_trades is called on two lists of lots
MatchCall(lists) ==
    /\ matching.pc = "idle"
    /\ \E buys \in lists.buys, sells \in lists.sells :
          matching' = [pc |-> "loop", buys |-> buys, sells |-> sells,
                       m |-> MatchStart(buys, sells)]
    /\ UNCHANGED <<orders, trades, prices, positions, t0_positions, alerts, params>>
    /\ UNCHANGED <<called, summary, divisors, strategyVars, again, raised, parserVars>>

\* one pass of its while loop
MatchIterate ==
    /\ matching.pc = "loop"
    /\ MatchGuard(matching.m)
    /\ matching' = [matching EXCEPT !.m = MatchStep(matching.m)]
    /\ UNCHANGED <<orders, trades, prices, positions, t0_positions, alerts, params>>
    /\ UNCHANGED <<called, summary, divisors, strategyVars, again, raised, parserVars>>

\* the loop is left and the call returns completed and profit
MatchReturn ==
    /\ matching.pc = "loop"
    /\ ~MatchGuard(matching.m)
    /\ matching' = [matching EXCEPT !.pc = "returned"]
    /\ UNCHANGED <<orders, trades, prices, positions, t0_positions, alerts, params>>
    /\ UNCHANGED <<called, summary, divisors, strategyVars, again, raised, parserVars>>

----------------------------------------------------------------------------
(* Input families *)

SeqsUpTo(S, n) == UNION {[1..k -> S] : k \in 0..n}

TradesOver(stocks, accounts, strategies, directions, volumes, tprices, times) ==
    [stock_code : stocks, account_id : accounts, strategy : strategies,
     direction : directions, volume : volumes, price : tprices, trade_time : times]

OrdersOver(stocks, accounts, strategies, price_types, volumes) ==
    [stock_code : stocks, account_id : accounts, strategy : strategies,
     price_type : price_types, volume : volumes]

\* a price for some of the stocks
PriceMapsOver(stocks, cprices) == UNION {[S -> cprices] : S \in SUBSET stocks}

Directions == {"BUY", "SELL"}
TradePrices == {1, 2}
Times == {1, 2}

\* the ledger on the trades of one key
LedgerTrades ==
    TradesOver({"600000"}, {"A1"}, {NoStrategyKey}, Directions, 0..MaxVol,
               TradePrices, Times)
LedgerTradeLists == SeqsUpTo(LedgerTrades, MaxTrades)
LedgerPriceMaps == PriceMapsOver({"600000"}, {2})

\* the T0 matcher on the trades of one key
T0TradeLists == SeqsUpTo(LedgerTrades, MaxT0Trades)

\* the pipeline of main.py on two stocks: orders, trades, prices, risk limits
PipelineStocks == {"600000", "000001"}
PipelineTrades ==
    TradesOver(PipelineStocks, {"A1"}, {NoStrategyKey}, Directions, {1, 2}, {1}, {1})
PipelineOrders ==
    OrdersOver(PipelineStocks, {"A1"}, {None}, {"18", "19", "3"},
               {<<"1">>, <<"x">>})
PipelinePriceMaps == PriceMapsOver(PipelineStocks, {1, 2})
Limits == {0, 4, 5}

\* the risk check on bought holdings of two stocks in two accounts
RiskTrades ==
    TradesOver(PipelineStocks, {"A1", "A2"}, {NoStrategyKey}, {"BUY"}, {1, 2}, {1}, {1})

\* the divisions on one key: volumes and prices that may be zero, prices
\* that may be negative, limits that may be zero
DivisionTrades ==
    TradesOver({"600000"}, {"A1"}, {NoStrategyKey}, Directions, {0, 1},
               {0 - 1, 0, 1}, {1})
DivisionPriceMaps == PriceMapsOver({"600000"}, {0 - 1, 0, 1})
DivisionLimits == {0, 1}

\* the signal generator on T0 positions of two stocks: (t0_buy_volume,
\* t0_sell_volume) of a T0Position, (total_volume, available_volume) of a base
\* Position
T0Shapes == {<<0, 100>>, <<100, 100>>, <<300, 100>>}
BaseShapes == {<<150, 150>>, <<201, 201>>, <<400, 400>>, <<2500, 2500>>}

T0PositionOf(stock_code, shape) ==
    [T0Position(stock_code, "A1", DEFAULT) EXCEPT
        !.t0_buy_volume = shape[1],
        !.t0_sell_volume = shape[2],
        !.t0_completed = Min(shape[1], shape[2]),
        !.t0_pending = T0Pending(shape[1], shape[2])]

BasePositionOf(stock_code, shape) ==
    [Position(stock_code, "A1", DEFAULT) EXCEPT
        !.total_volume = shape[1],
        !.available_volume = shape[2]]

\* the sequences of distinct stocks
StockSeqs ==
    {ks \in SeqsUpTo(PipelineStocks, Cardinality(PipelineStocks)) :
        \A i, j \in 1..Len(ks) : i # j => ks[i] # ks[j]}

\* the mapping holding make(stock, f[stock]) for the stocks of ks, in this order
MappingOver(ks, f, make(_, _)) ==
    LET key(stock_code) == MakePositionKey(stock_code, "A1", DEFAULT)
        stocks == {ks[i] : i \in 1..Len(ks)}
    IN  [keys |-> [i \in 1..Len(ks) |-> key(ks[i])],
         at |-> [k \in {key(x) : x \in stocks} |->
                   LET x == CHOOSE y \in stocks : key(y) = k IN make(x, f[x])]]

T0Maps ==
    UNION {{MappingOver(ks, f, T0PositionOf) :
               f \in [{ks[i] : i \in 1..Len(ks)} -> T0Shapes]} : ks \in StockSeqs}

\* the base mappings: the order of their keys is never read
BaseMaps ==
    UNION {{MappingOver(SelectSeq(<<"600000", "000001">>, LAMBDA x : x \in S), f,
                        BasePositionOf) : f \in [S -> BaseShapes]} :
           S \in SUBSET PipelineStocks}

SignalPriceMaps == PriceMapsOver(PipelineStocks, {10})

\* repeated calls on the orders and trades of one key
RepeatTrades ==
    TradesOver({"600000"}, {"A1"}, {NoStrategyKey}, Directions, {1, 2}, {1}, Times)
RepeatOrders == OrdersOver({"600000"}, {"A1"}, {None}, {"18"}, {<<"1">>})
RepeatLimits == {0, 4}

\* orders of one key whose volume is any short string
VolumeStrings ==
    {<<>>, <<"1">>, <<"1", "2">>, <<"x">>, <<"-", "1">>, <<"1", ".", "5">>,
     <<SuperscriptTwo>>}
VolumeOrders == OrdersOver({"600000"}, {"A1"}, {None}, {"18", "19"}, VolumeStrings)

\* tables of order rows: any of the required columns under its own name, the
\* volume column also under its Chinese name or a part of it, and a column
\* that is not required; a cell holds a value fit for its column, and at
\* most one cell of a row is NaN
ShortVolumeName == <<"U+6570", "U+91CF">>
ChineseVolumeName == <<"U+59D4", "U+6258", "U+6570", "U+91CF">>
TableHeaders ==
    <<FieldText.order_type, FieldText.price_type, FieldText.stock_code,
      FieldText.volume, ChineseVolumeName, ShortVolumeName,
      FieldText.account_id, FieldText.note>>
VolumeHeaders == {FieldText.volume, ChineseVolumeName, ShortVolumeName}
ColumnSets ==
    {S \in SUBSET {TableHeaders[i] : i \in 1..Len(TableHeaders)} :
        Cardinality(S \cap VolumeHeaders) <= 1}
FitCell(header) ==
    [isna |-> FALSE,
     text |-> CASE header = FieldText.order_type -> <<"1">>
                [] header = FieldText.price_type -> <<"1", "8">>
                [] header = FieldText.stock_code -> <<"6", "0", "0", "0", "0", "0">>
                [] header \in VolumeHeaders -> <<"1", "0", "0">>
                [] header = FieldText.account_id -> <<"A", "1">>
                [] OTHER -> <<"x">>]
NaNCell == [isna |-> TRUE, text |-> <<"n", "a", "n">>]
RowsOver(S) ==
    {[h \in S |-> IF h \in B THEN NaNCell ELSE FitCell(h)] :
        B \in {{}} \cup {{h} : h \in S}}
TablesOver(S) ==
    {[columns |-> SelectSeq(TableHeaders, LAMBDA h : h \in S), rows |-> rs] :
        rs \in SeqsUpTo(RowsOver(S), MaxRows)}
Tables == UNION {TablesOver(S) : S \in ColumnSets}

\* the table of test_validate_required_fields: one row, the columns
\* order_type and stock_code
RequiredFieldsTestTable ==
    [columns |-> <<FieldText.order_type, FieldText.stock_code>>,
     rows |-> <<[h \in {FieldText.order_type, FieldText.stock_code} |-> FitCell(h)]>>]
Files ==
    {[readable |-> TRUE, table |-> t] : t \in Tables}
    \cup {[readable |-> FALSE, table |-> [columns |-> <<>>, rows |-> <<>>]]}

\* orders of one key with every recognised price_type and some others
DirectionPriceTypes == {"18", "1", "BUY", "19", "2", "SELL", "3", "M1"}
DirectionOrders ==
    OrdersOver({"600000"}, {"A1"}, {None}, DirectionPriceTypes, {<<"1">>, <<"2">>})

\* lists of lots with integer volumes, zero and negative ones included
LotVolumes == {0 - 1, 0, 1, 2}
LotLists ==
    [buys |-> SeqsUpTo([volume : LotVolumes, price : {1}], MaxLots),
     sells |-> SeqsUpTo([volume : LotVolumes, price : {2}], MaxLots)]

\* identifiers that hold the key's delimiter
KeyTrades ==
    TradesOver({"600000"}, {"A", "A_B"}, {"C", "B_C"}, {"BUY"}, {1}, {1}, {1})
KeyOrders ==
    OrdersOver({"600000"}, {"A", "A_B"}, {"C", "B_C"}, {"18"}, {<<"1">>})

----------------------------------------------------------------------------
(* Specifications *)

\* the pipeline: load orders, trades and prices, then calculate, calculate_t0
\* and the risk check
Next ==
    \/ LoadOrders({os \in SeqsUpTo(PipelineOrders, MaxRecords) :
                      Len(os) + Len(trades) <= MaxRecords})
    \/ LoadTrades({ts \in SeqsUpTo(PipelineTrades, MaxRecords) :
                      Len(ts) + Len(orders) <= MaxRecords})
    \/ SetPrices(PipelinePriceMaps)
    \/ Calculate
    \/ CalculateT0
    \/ RiskCheck(Limits)

Spec == Init /\ [][Next]_vars

\* the ledger on trade lists of one key
NextLedger ==
    \/ LoadTrades(LedgerTradeLists)
    \/ SetPrices(LedgerPriceMaps)
    \/ Calculate

SpecLedger == Init /\ [][NextLedger]_vars

\* the T0 matcher on trade lists of one key
NextT0 ==
    \/ LoadTrades(T0TradeLists)
    \/ CalculateT0

SpecT0 == Init /\ [][NextT0]_vars

\* the ledger on records whose identifiers hold the delimiter of the key
NextKeys ==
    \/ LoadOrders(SeqsUpTo(KeyOrders, MaxTrades))
    \/ LoadTrades(SeqsUpTo(KeyTrades, MaxTrades))
    \/ Calculate

SpecKeys == Init /\ [][NextKeys]_vars

\* the risk check on holdings of two stocks in two accounts
NextRisk ==
    \/ LoadTrades(SeqsUpTo(RiskTrades, MaxTrades))
    \/ SetPrices(PipelinePriceMaps)
    \/ Calculate
    \/ RiskCheck(Limits)

SpecRisk == Init /\ [][NextRisk]_vars

\* the divisions of calculate(), check() and get_summary() on one key
NextDivisions ==
    \/ LoadTrades(SeqsUpTo(DivisionTrades, MaxTrades))
    \/ SetPrices(DivisionPriceMaps)
    \/ Calculate
    \/ RiskCheck(DivisionLimits)
    \/ Summarize

SpecDivisions == Init /\ [][NextDivisions]_vars

\* generate_signals on any T0 position mapping, price map and base position
\* mapping, called at any time, any number of times
InitSignals ==
    /\ orders = <<>>
    /\ trades = <<>>
    /\ prices \in SignalPriceMaps
    /\ positions = EmptyDict
    /\ t0_positions \in T0Maps
    /\ alerts = <<>>
    /\ params = [max_total_position |-> DefaultMaxTotalPosition]
    /\ called = {}
    /\ summary = GetSummary(EmptyDict)
    /\ divisors = {}
    /\ signals = <<>>
    /\ base \in BaseMaps
    /\ now = 0
    /\ earlier = <<>>
    /\ again = {}
    /\ raised = NoError
    /\ df = <<>>
    /\ parser_orders = <<>>
    /\ parse_errors = <<>>
    /\ validation_errors = <<>>
    /\ valid = <<>>
    /\ matching = [pc |-> "idle", buys |-> <<>>, sells |-> <<>>,
                   m |-> MatchStart(<<>>, <<>>)]

NextSignals ==
    \/ GenerateSignals
    \/ Tick

SpecSignals == InitSignals /\ [][NextSignals]_vars

\* calculate(), calculate_t0() and check() called any number of times on the
\* same instances
NextRepeat ==
    \/ LoadOrders({<<>>} \cup {<<o>> : o \in RepeatOrders})
    \/ LoadTrades(SeqsUpTo(RepeatTrades, MaxTrades))
    \/ SetPrices(LedgerPriceMaps)
    \/ Calculate
    \/ CalculateT0
    \/ RiskCheck(RepeatLimits)
    \/ CalculateAgain
    \/ CalculateT0Again
    \/ RiskCheckAgain

SpecRepeat == Init /\ [][NextRepeat]_vars

\* calculate() on orders whose volume is any short string
NextVolumes ==
    \/ LoadOrders(SeqsUpTo(VolumeOrders, MaxTrades))
    \/ Calculate

SpecVolumes == Init /\ [][NextVolumes]_vars

\* one parser on one file, then validate()
NextParser ==
    \/ Parse(Files)
    \/ Validate

SpecParser == Init /\ [][NextParser]_vars

\* calculate() on orders of every price_type
NextDirections ==
    \/ LoadOrders(SeqsUpTo(DirectionOrders, MaxTrades))
    \/ Calculate

SpecDirections == Init /\ [][NextDirections]_vars

\* one call of _match_t0_trades, pass by pass; the code runs on once it is
\* called, so a pass or the return that can be taken is taken
NextMatch ==
    \/ MatchCall(LotLists)
    \/ MatchIterate
    \/ MatchReturn

SpecMatch ==
    /\ Init
    /\ [][NextMatch]_vars
    /\ WF_vars(MatchIterate)
    /\ WF_vars(MatchReturn)

----------------------------------------------------------------------------
(* Vocabulary of the properties *)

Calculated == "calculate" \in called
T0Calculated == "calculate_t0" \in called
Checked == "check" \in called

PositionsOf(d) == {d.at[k] : k \in DOMAIN d.at}

\* the trades of one composite key, in list order
TradesOfKey(ts, key) == SelectSeq(ts, LAMBDA t : TradeKey(t) = key)

RECURSIVE SumTradeVolume(_)
SumTradeVolume(ts) ==
    IF ts = <<>> THEN 0 ELSE Head(ts).volume + SumTradeVolume(Tail(ts))

RECURSIVE SumTradeCost(_)
SumTradeCost(ts) ==
    IF ts = <<>> THEN 0 ELSE Head(ts).price * Head(ts).volume + SumTradeCost(Tail(ts))

\* the summed volume of the orders of one key and one direction
RECURSIVE SumOrderVolume(_, _, _)
SumOrderVolume(os, key, direction) ==
    IF os = <<>> THEN 0
    ELSE (IF OrderKey(Head(os)) = key /\ GetOrderDirection(Head(os)) = direction
          THEN OrderVolume(Head(os)) ELSE 0)
         + SumOrderVolume(Tail(os), key, direction)

\* the ledger after the first n trades
LedgerAfter(n) == CalculateFromTrades(EmptyDict, SubSeq(trades, 1, n), prices)

HeldBefore(n) ==
    LET before == LedgerAfter(n - 1)
        key == TradeKey(trades[n])
    IN  IF DictHas(before, key) THEN before.at[key].total_volume ELSE 0

Oversell(n) == trades[n].direction = "SELL" /\ trades[n].volume > HeldBefore(n)

RECURSIVE SumOfSet(_, _)
SumOfSet(S, f) ==
    IF S = {} THEN 0
    ELSE LET x == CHOOSE y \in S : TRUE IN f[x] + SumOfSet(S \ {x}, f)

\* the summed market value of the calculated positions
Exposure == SumOfSet(DOMAIN positions.at,
                     [k \in DOMAIN positions.at |-> positions.at[k].market_value])

TotalExposureCodes == {"RISK_TOTAL_POSITION_EXCEEDED", "RISK_TOTAL_POSITION_HIGH"}

\* the number of total-exposure alerts of one level
ExposureAlerts(level) ==
    Cardinality({i \in 1..Len(alerts) :
                    alerts[i].code \in TotalExposureCodes /\ alerts[i].level = level})

\* the effective (stock_code, account_id, strategy) triples of the loaded records
RecordTriples ==
    {<<orders[i].stock_code, orders[i].account_id, OrderStrategy(orders[i])>> :
        i \in 1..Len(orders)}
    \cup
    {<<trades[i].stock_code, trades[i].account_id, TradeStrategy(trades[i])>> :
        i \in 1..Len(trades)}

\* the summed market value of the calculated positions of one stock
StockExposure(stock_code) ==
    LET ks == {k \in DOMAIN positions.at : positions.at[k].stock_code = stock_code}
    IN  SumOfSet(ks, [k \in ks |-> positions.at[k].market_value])

\* the concentration alerts raised for one stock
ConcentrationAlertsOf(stock_code) ==
    {i \in 1..Len(alerts) :
        alerts[i].code = "RISK_CONCENTRATION_EXCEEDED" /\ alerts[i].stock_code = stock_code}

\* the stocks of the calculated positions and of the alerts
StocksSeen ==
    {positions.at[k].stock_code : k \in DOMAIN positions.at}
    \cup {alerts[i].stock_code : i \in 1..Len(alerts)}

Generated == "generate_signals" \in called

\* the generated signals of one priority that carry the identifiers of pos
SignalsFor(pos, priority) ==
    {i \in 1..Len(signals) :
        /\ signals[i].priority = priority
        /\ signals[i].stock_code = pos.stock_code
        /\ signals[i].account_id = pos.account_id
        /\ signals[i].strategy = pos.strategy}

\* the price the generator reads for a stock
PriceOf(stock_code) == IF stock_code \in DOMAIN prices THEN prices[stock_code] ELSE 0

\* the place, in the iteration order of the T0 position mapping, of the
\* T0Position a signal was generated for
PlaceOf(sig) ==
    CHOOSE n \in 1..Len(t0_positions.keys) :
        t0_positions.keys[n] = MakePositionKey(sig.stock_code, sig.account_id, sig.strategy)

\* a list of signals without their times of creation
Undated(xs) == [i \in 1..Len(xs) |-> [xs[i] EXCEPT !.created_at = 0]]

\* the orders of one composite key, in list order
OrdersOfKey(os, key) == SelectSeq(os, LAMBDA o : OrderKey(o) = key)

\* the composite keys of the loaded records
TradeKeys == {TradeKey(trades[i]) : i \in 1..Len(trades)}
RecordKeys == TradeKeys \cup {OrderKey(orders[i]) : i \in 1..Len(orders)}

\* the computations run on the records of one key alone
ShardPositions(key) ==
    CalculatePositions(OrdersOfKey(orders, key), TradesOfKey(trades, key), prices)
ShardT0Positions(key) == CalculateT0Positions(TradesOfKey(trades, key))
ShardAlerts(key) == RiskCheckAlerts(ShardPositions(key), params.max_total_position)

AlertSet(as) == {as[i] : i \in 1..Len(as)}
ProfitLossCodes == {"RISK_STOP_LOSS", "RISK_TAKE_PROFIT"}

\* the positions and the T0 positions of the full run are those of the runs
\* on each key alone
ShardedPositionsAgree ==
    /\ Calculated =>
          /\ DOMAIN positions.at = RecordKeys
          /\ \A k \in RecordKeys :
                /\ DOMAIN ShardPositions(k).at = {k}
                /\ ShardPositions(k).at[k] = positions.at[k]
    /\ T0Calculated =>
          /\ DOMAIN t0_positions.at = TradeKeys
          /\ \A k \in TradeKeys :
                /\ DOMAIN ShardT0Positions(k).at = {k}
                /\ ShardT0Positions(k).at[k] = t0_positions.at[k]

\* the string is a plain non-negative integer: decimal digits only
PlainInteger(s) == Len(s) > 0 /\ \A i \in 1..Len(s) : \E j \in 1..10 : Digits[j] = s[i]

\* what the orders of one key and one direction add: the value of a plain
\* integer, 0 for any other string
RECURSIVE SumPlainVolume(_, _, _)
SumPlainVolume(os, key, direction) ==
    IF os = <<>> THEN 0
    ELSE (IF OrderKey(Head(os)) = key /\ GetOrderDirection(Head(os)) = direction
             /\ PlainInteger(Head(os).volume)
          THEN IntOf(Head(os).volume) ELSE 0)
         + SumPlainVolume(Tail(os), key, direction)

\* the table the parser holds lacks the column of a required field
LacksRequiredColumn ==
    /\ df # <<>>
    /\ \E i \in 1..Len(REQUIRED_FIELDS) : ~HasColumn(df[1], FieldText[REQUIRED_FIELDS[i]])

\* trade i comes before trade j in ascending trade_time, ties in list order
Precedes(ts, i, j) ==
    \/ ts[i].trade_time < ts[j].trade_time
    \/ ts[i].trade_time = ts[j].trade_time /\ i < j

\* the trades in that order: the k-th is the one that k - 1 trades precede
Chronological(ts) ==
    [k \in 1..Len(ts) |->
        ts[CHOOSE i \in 1..Len(ts) :
              Cardinality({j \in 1..Len(ts) : Precedes(ts, j, i)}) = k - 1]]

\* the units of volume traded in one direction, each with its price, in the
\* order of the trades
RECURSIVE UnitPrices(_, _)
UnitPrices(ts, direction) ==
    IF ts = <<>> THEN <<>>
    ELSE (IF Head(ts).direction = direction /\ Head(ts).volume > 0
          THEN [u \in 1..Head(ts).volume |-> Head(ts).price]
          ELSE <<>>)
         \o UnitPrices(Tail(ts), direction)

\* the sum of (sell price - buy price) over the first n pairs of units
RECURSIVE UnitProfit(_, _, _)
UnitProfit(bought, sold, n) ==
    IF n = 0 THEN 0
    ELSE (sold[n] - bought[n]) + UnitProfit(bought, sold, n - 1)

\* the price types that name a direction
BuyPriceTypes == {"18", "1", "BUY"}
SellPriceTypes == {"19", "2", "SELL"}

\* the summed volume of the orders of one key to which the Order's own
\* get_direction gives one of the directions
RECURSIVE SumVolumeByOwnDirection(_, _, _)
SumVolumeByOwnDirection(os, key, directions) ==
    IF os = <<>> THEN 0
    ELSE (IF OrderKey(Head(os)) = key /\ GetDirection(Head(os)) \in directions
          THEN OrderVolume(Head(os)) ELSE 0)
         + SumVolumeByOwnDirection(Tail(os), key, directions)

\* no lot holds more than it did when the matcher was called
LotsNotGrown ==
    /\ \A i \in 1..Len(matching.buys) :
          matching.m.buys[i].volume <= matching.buys[i].volume
    /\ \A i \in 1..Len(matching.sells) :
          matching.m.sells[i].volume <= matching.sells[i].volume

\* a step that is a pass of the loop advances an index or leaves the loop
PassAdvancesOrLeaves ==
    (matching.pc = "loop" /\ matching'.pc = "loop" /\ matching' # matching) =>
        \/ matching'.m.buy_idx > matching.m.buy_idx
        \/ matching'.m.sell_idx > matching.m.sell_idx
        \/ ~matching'.m.running

----------------------------------------------------------------------------
(* Properties *)

\* C1: after calculate_t0(), every T0Position has t0_completed equal to the
\* smaller of t0_buy_volume and t0_sell_volume, and t0_completed + t0_pending
\* equal to the larger of the two.
C1_T0CompletedIsMin ==
    T0Calculated =>
        \A p \in PositionsOf(t0_positions) :
            /\ p.t0_completed = Min(p.t0_buy_volume, p.t0_sell_volume)
            /\ p.t0_completed + p.t0_pending = Max(p.t0_buy_volume, p.t0_sell_volume)

\* C2: after calculate(), total_volume and avg_cost of every Position are those
\* of the fold of the trades in ascending trade_time order, whatever the order
\* of the loaded list.
C2_ChronologicalFold ==
    Calculated =>
        LET chrono == CalculatePositions(orders, SortByTime(trades), prices)
        IN  \A k \in DOMAIN positions.at :
                /\ positions.at[k].total_volume = chrono.at[k].total_volume
                /\ positions.at[k].avg_cost = chrono.at[k].avg_cost

\* C3: after calculate() with no trades loaded, every Position holds
\* total_volume = (summed BUY order volume) - (summed SELL order volume) when
\* that difference is positive, and no holding otherwise.
C3_OrdersOnlyEstimate ==
    (Calculated /\ trades = <<>>) =>
        \A k \in DOMAIN positions.at :
            LET d == SumOrderVolume(orders, k, "BUY") - SumOrderVolume(orders, k, "SELL")
            IN  positions.at[k].total_volume = IF d > 0 THEN d ELSE 0

\* C4: after calculate_t0() with orders and no trades loaded, every key that
\* has orders has a T0Position, with t0_completed the smaller of its BUY and
\* SELL order volumes and t0_profit = 0.
C4_OrdersOnlyT0 ==
    (T0Calculated /\ trades = <<>>) =>
        \A i \in 1..Len(orders) :
            LET k == OrderKey(orders[i])
            IN  /\ DictHas(t0_positions, k)
                /\ t0_positions.at[k].t0_completed =
                      Min(SumOrderVolume(orders, k, "BUY"),
                          SumOrderVolume(orders, k, "SELL"))
                /\ t0_positions.at[k].t0_profit = 0

\* C5: after calculate(), every Position has
\* available_volume = max(0, total_volume - frozen_volume).
C5_AvailableVolume ==
    Calculated =>
        \A p \in PositionsOf(positions) :
            p.available_volume =
                IF p.total_volume - p.frozen_volume > 0
                THEN p.total_volume - p.frozen_volume ELSE 0

\* C5: a calculated Position with frozen volume and volume left available.
C5_Witness ==
    /\ Calculated
    /\ \E p \in PositionsOf(positions) :
          p.frozen_volume > 0 /\ p.total_volume > p.frozen_volume
          /\ p.available_volume > 0

\* C6: after every prefix of the fold of the trades, total_volume and
\* available_volume of every Position are not negative, and a SELL larger than
\* the holding leaves total_volume = 0; calculate() then returns a Position for
\* every traded key with neither volume negative.
C6_NonNegative ==
    /\ \A n \in 0..Len(trades) :
          /\ \A p \in PositionsOf(LedgerAfter(n)) :
                p.total_volume >= 0 /\ p.available_volume >= 0
          /\ (n > 0 /\ Oversell(n)) =>
                LedgerAfter(n).at[TradeKey(trades[n])].total_volume = 0
    /\ Calculated =>
          /\ \A i \in 1..Len(trades) : DictHas(positions, TradeKey(trades[i]))
          /\ \A p \in PositionsOf(positions) :
                p.total_volume >= 0 /\ p.available_volume >= 0

\* C6: a calculated ledger in which a SELL exceeded a holding that was not empty.
C6_Witness ==
    /\ Calculated
    /\ \E n \in 1..Len(trades) : Oversell(n) /\ HeldBefore(n) > 0

\* C7: after calculate(), a Position whose trades are all BUY has total_volume
\* equal to the summed trade volume and avg_cost * total_volume equal to the
\* summed price * volume.
C7_BuyOnlyConservation ==
    Calculated =>
        \A k \in DOMAIN positions.at :
            LET ts == TradesOfKey(trades, k)
                p == positions.at[k]
            IN  (\A i \in 1..Len(ts) : ts[i].direction = "BUY") =>
                    /\ p.total_volume = SumTradeVolume(ts)
                    /\ p.avg_cost.num * p.total_volume
                          = p.avg_cost.den * SumTradeCost(ts)

\* C7: a calculated Position of two BUY trades at different prices whose mean
\* cost is not a whole number.
C7_Witness ==
    /\ Calculated
    /\ Len(trades) >= 2
    /\ \A i \in 1..Len(trades) : trades[i].direction = "BUY" /\ trades[i].volume > 0
    /\ \E i, j \in 1..Len(trades) : trades[i].price # trades[j].price
    /\ \E p \in PositionsOf(positions) : p.avg_cost.den > 1

\* C8: after calculate(), every Position has current_price equal to the price
\* map's entry for its stock_code, or 0 when the stock is absent, and
\* market_value = total_volume * current_price.
C8_PriceAndMarketValue ==
    Calculated =>
        \A p \in PositionsOf(positions) :
            /\ p.current_price =
                  IF p.stock_code \in DOMAIN prices THEN prices[p.stock_code] ELSE 0
            /\ p.market_value = p.total_volume * p.current_price

\* C9: after calculate(), there is exactly one Position for each distinct
\* (stock_code, account_id, strategy) triple of the loaded orders and trades.
C9_OnePositionPerTriple ==
    Calculated => Cardinality(DOMAIN positions.at) = Cardinality(RecordTriples)

\* C10: after check(), with T the summed market value and L max_total_position:
\* T > L gives exactly one ERROR total-exposure alert and no WARNING one;
\* 0.8 L < T <= L gives exactly one WARNING and no ERROR; T <= 0.8 L gives
\* neither.
C10_TotalExposureAlert ==
    Checked =>
        LET T == Exposure
            L == params.max_total_position
        IN  /\ T > L => ExposureAlerts("ERROR") = 1 /\ ExposureAlerts("WARNING") = 0
            /\ (5 * T > 4 * L /\ T <= L) =>
                  ExposureAlerts("WARNING") = 1 /\ ExposureAlerts("ERROR") = 0
            /\ 5 * T <= 4 * L =>
                  ExposureAlerts("ERROR") = 0 /\ ExposureAlerts("WARNING") = 0

\* C10: a check in which the exposure is exactly the limit and only the
\* WARNING is raised.
C10_Witness ==
    /\ Checked
    /\ Exposure = params.max_total_position
    /\ Exposure > 0
    /\ ExposureAlerts("WARNING") = 1
    /\ ExposureAlerts("ERROR") = 0

\* C11: after check(), a stock whose market value summed over all its positions
\* is more than max_single_stock_ratio (1/5) of the total market value has
\* exactly one concentration alert, of level ERROR; every other stock has none;
\* this holds whether or not a total-exposure alert was raised.
C11_ConcentrationAlert ==
    Checked =>
        \A s \in StocksSeen \ {None} :
            LET over == Exposure > 0 /\ MaxSingleStockRatioDen * StockExposure(s)
                                          > MaxSingleStockRatioNum * Exposure
            IN  /\ Cardinality(ConcentrationAlertsOf(s)) = IF over THEN 1 ELSE 0
                /\ \A i \in ConcentrationAlertsOf(s) : alerts[i].level = "ERROR"

\* C11: a check that raised the total-exposure ERROR, one concentration alert
\* for one stock, and none for the other stock, which is at exactly 1/5.
C11_Witness ==
    /\ Checked
    /\ ExposureAlerts("ERROR") = 1
    /\ \E s, t \in StocksSeen \ {None} :
          /\ MaxSingleStockRatioDen * StockExposure(s) = MaxSingleStockRatioNum * Exposure
          /\ StockExposure(s) > 0
          /\ ConcentrationAlertsOf(s) = {}
          /\ Cardinality(ConcentrationAlertsOf(t)) = 1

\* C12: every division that calculate(), check() and get_summary() evaluate
\* (avg_cost, profit_loss_ratio, concentration ratio, summary ratio, the
\* percentage of the warning) has a strictly positive denominator, for any
\* inputs: zero volumes, zero or negative prices, a zero limit.
C12_PositiveDenominators == \A d \in divisors : RatPos(d.den)

\* C12, amended: no division has a zero denominator; the denominator is
\* strictly positive everywhere but at the concentration ratio, which is
\* guarded by total_value == 0 only and divides by a negative total.
C12_NonZeroDenominators ==
    \A d \in divisors :
        /\ d.den.num # 0
        /\ d.site # "concentration" => RatPos(d.den)

\* C12: a zero-volume trade, a negative price and a zero limit, after
\* calculate(), check() and get_summary(): the average cost was divided and
\* the concentration ratio was divided by a negative total.
C12_Witness ==
    /\ {"calculate", "check", "get_summary"} \subseteq called
    /\ params.max_total_position = 0
    /\ \E i \in 1..Len(trades) : trades[i].volume = 0
    /\ \E d \in divisors : d.site = "avg_cost"
    /\ \E d \in divisors : d.site = "concentration" /\ d.den.num < 0

\* C13: after generate_signals, a T0Position with t0_pending > 0 has exactly
\* one priority-2 signal, with target_volume = t0_pending: a SELL at
\* current_price * (1 + sell_premium) when t0_buy_volume > t0_sell_volume,
\* otherwise a BUY at current_price * (1 - buy_discount); a T0Position with
\* t0_pending = 0 has no priority-2 signal.
C13_PendingSignal ==
    Generated =>
        \A k \in DOMAIN t0_positions.at :
            LET pos == t0_positions.at[k]
                cp == PriceOf(pos.stock_code)
            IN  IF pos.t0_pending > 0
                THEN /\ Cardinality(SignalsFor(pos, 2)) = 1
                     /\ \A i \in SignalsFor(pos, 2) :
                           LET sig == signals[i]
                           IN  /\ sig.target_volume = pos.t0_pending
                               /\ IF pos.t0_buy_volume > pos.t0_sell_volume
                                  THEN /\ sig.signal_type = "SELL"
                                       /\ sig.target_price.num * SellPremiumDen
                                             = cp * (SellPremiumDen + SellPremiumNum)
                                               * sig.target_price.den
                                  ELSE /\ sig.signal_type = "BUY"
                                       /\ sig.target_price.num * BuyDiscountDen
                                             = cp * (BuyDiscountDen - BuyDiscountNum)
                                               * sig.target_price.den
                ELSE SignalsFor(pos, 2) = {}

\* C13: a generated list with a priority-2 SELL for one T0Position and a
\* priority-2 BUY for another, both at a price that is not zero.
C13_Witness ==
    /\ Generated
    /\ \E i, j \in 1..Len(signals) :
          /\ signals[i].priority = 2 /\ signals[i].signal_type = "SELL"
          /\ signals[j].priority = 2 /\ signals[j].signal_type = "BUY"
          /\ signals[i].target_price.num > signals[j].target_price.num
          /\ signals[j].target_price.num > 0

\* C14: after generate_signals, a T0Position whose key has a base Position has
\* a priority-3 SELL signal exactly when available_for_t0 =
\* base.available_volume - t0_buy_volume is >= min_t0_volume and target =
\* min(available_for_t0, base.total_volume * max_t0_ratio, 1000) is >=
\* min_t0_volume, and the signal's target_volume is that target; a T0Position
\* without a base Position has no priority-3 signal.
C14_BaseSignal ==
    Generated =>
        \A k \in DOMAIN t0_positions.at :
            LET pos == t0_positions.at[k]
            IN  IF DictHas(base, k)
                THEN LET available_for_t0 ==
                             base.at[k].available_volume - pos.t0_buy_volume
                         \* the target, in units of 1 / MaxT0RatioDen
                         target ==
                             Min(Min(available_for_t0 * MaxT0RatioDen,
                                     base.at[k].total_volume * MaxT0RatioNum),
                                 MaxT0Target * MaxT0RatioDen)
                         due == /\ available_for_t0 >= MinT0Volume
                                /\ target >= MinT0Volume * MaxT0RatioDen
                     IN  /\ Cardinality(SignalsFor(pos, 3)) = IF due THEN 1 ELSE 0
                         /\ \A i \in SignalsFor(pos, 3) :
                               /\ signals[i].signal_type = "SELL"
                               /\ signals[i].target_volume * MaxT0RatioDen = target
                ELSE SignalsFor(pos, 3) = {}

\* C14, amended: as C14, with the target min(available_for_t0,
\* floor(base.total_volume * max_t0_ratio), 1000): the product is truncated to
\* a whole number of shares before the minimum is taken.
C14_BaseSignalTruncated ==
    Generated =>
        \A k \in DOMAIN t0_positions.at :
            LET pos == t0_positions.at[k]
            IN  IF DictHas(base, k)
                THEN LET available_for_t0 ==
                             base.at[k].available_volume - pos.t0_buy_volume
                         whole == (base.at[k].total_volume * MaxT0RatioNum)
                                      \div MaxT0RatioDen
                         target == Min(Min(available_for_t0, whole), MaxT0Target)
                         due == /\ available_for_t0 >= MinT0Volume
                                /\ target >= MinT0Volume
                     IN  /\ Cardinality(SignalsFor(pos, 3)) = IF due THEN 1 ELSE 0
                         /\ \A i \in SignalsFor(pos, 3) :
                               /\ signals[i].signal_type = "SELL"
                               /\ signals[i].target_volume = target
                ELSE SignalsFor(pos, 3) = {}

\* C14: a generated list with a priority-3 signal of 100 shares on a base of
\* 201 shares (half of it is 100.5) and one of 1000 shares, the cap.
C14_Witness ==
    /\ Generated
    /\ \E k \in DOMAIN t0_positions.at :
          /\ DictHas(base, k)
          /\ base.at[k].total_volume = 201
          /\ \E i \in SignalsFor(t0_positions.at[k], 3) :
                signals[i].target_volume = 100
    /\ \E i \in 1..Len(signals) :
          signals[i].priority = 3 /\ signals[i].target_volume = MaxT0Target

\* C15: the list returned by generate_signals is in ascending order of
\* priority, and signals of equal priority are in the order in which they
\* were generated, the iteration order of the T0 position mapping.
C15_SortedStable ==
    Generated =>
        \A i, j \in 1..Len(signals) :
            i < j =>
                /\ signals[i].priority <= signals[j].priority
                /\ signals[i].priority = signals[j].priority =>
                      PlaceOf(signals[i]) < PlaceOf(signals[j])

\* C15: a returned list in which the sort moved the priority-2 signal of the
\* second T0Position before the priority-3 signal of the first one, behind
\* the priority-2 signal of the first one.
C15_Witness ==
    /\ Generated
    /\ Len(signals) >= 3
    /\ signals[1].priority = 2 /\ PlaceOf(signals[1]) = 1
    /\ signals[2].priority = 2 /\ PlaceOf(signals[2]) = 2
    /\ signals[3].priority = 3 /\ PlaceOf(signals[3]) = 1

\* C16: two calls of generate_signals with the same T0 positions, prices, base
\* positions and parameters, made at any two times, return the same list of
\* signals, equal in every field, created_at included.
C16_IdenticalSignals == earlier # <<>> => earlier[1] = signals

\* C16, amended: two such calls return lists equal in every field but
\* created_at, which holds the time of the call that created the signal.
C16_IdenticalButCreatedAt ==
    earlier # <<>> => Undated(earlier[1]) = Undated(signals)

\* C16: two calls at different times with the same inputs, each returning
\* signals.
C16_Witness ==
    /\ earlier # <<>>
    /\ signals # <<>>
    /\ Len(earlier[1]) = Len(signals)
    /\ \A i \in 1..Len(signals) : earlier[1][i].created_at < signals[i].created_at

\* C17: a further call of calculate(), calculate_t0() or check() on the same
\* instance with the same loaded inputs leaves the same positions,
\* t0_positions and alerts as the call before, and no call changes the loaded
\* order and trade lists.
C17_RepeatedCalls ==
    [][/\ Calculated => positions' = positions
       /\ T0Calculated => t0_positions' = t0_positions
       /\ (Checked /\ params' = params) => alerts' = alerts
       /\ called' # {} => (orders' = orders /\ trades' = trades)]_vars

\* C17: each of calculate(), calculate_t0() and check() was called again, on
\* an order and trades that give a holding, a T0Position and alerts.
C17_Witness ==
    /\ again = {"calculate", "calculate_t0", "check"}
    /\ orders # <<>>
    /\ Len(trades) >= 2
    /\ \E p \in PositionsOf(positions) : p.total_volume > 0 /\ p.frozen_volume > 0
    /\ \E p \in PositionsOf(t0_positions) : p.t0_completed > 0
    /\ Len(alerts) >= 2

C19_MalformedVolume ==
    /\ raised = NoError
    /\ Calculated =>
          \A i \in 1..Len(orders) :
              LET k == OrderKey(orders[i])
                  buy == SumPlainVolume(orders, k, "BUY")
                  sell == SumPlainVolume(orders, k, "SELL")
              IN  /\ DictHas(positions, k)
                  /\ positions.at[k].buy_volume = buy
                  /\ positions.at[k].sell_volume = sell
                  /\ positions.at[k].frozen_volume = buy + sell

\* the parser has parsed the table of test_validate_required_fields and
\* validate() was called, as in the test
ParsedTestTable ==
    /\ {"parse", "validate"} \subseteq called
    /\ df = <<RequiredFieldsTestTable>>

\* C20: whenever the parsed table lacks one or more of the required columns,
\* also when some of them are present, parse() leaves at least one entry in
\* parse_errors and validate() returns False.
C20_MissingColumns ==
    ("parse" \in called /\ LacksRequiredColumn) =>
        /\ Len(parse_errors) >= 1
        /\ valid # <<>> => valid = <<FALSE>>

\* C21: for every key, calculate_t0() pairs the k-th unit of bought volume
\* with the k-th unit of sold volume, the lots taken in ascending trade_time
\* order (ties in list order): t0_completed is the number of units paired and
\* t0_profit is the sum over the paired units of (sell price - buy price).
C21_UnitPairing ==
    T0Calculated =>
        \A k \in DOMAIN t0_positions.at :
            LET ts == Chronological(TradesOfKey(trades, k))
                bought == UnitPrices(ts, "BUY")
                sold == UnitPrices(ts, "SELL")
                paired == Min(Len(bought), Len(sold))
            IN  /\ t0_positions.at[k].t0_completed = paired
                /\ t0_positions.at[k].t0_profit = UnitProfit(bought, sold, paired)

C23_MatchTerminates ==
    /\ (matching.pc = "loop") ~> (matching.pc = "returned")
    /\ [][PassAdvancesOrLeaves]_vars
    /\ [](matching.pc = "returned" => LotsNotGrown)

\* a call has returned after pairing some volume and then leaving the loop
\* at a lot of zero or negative volume
C23_Witness ==
    /\ matching.pc = "returned"
    /\ matching.m.completed > 0
    /\ ~matching.m.running
    /\ matching.m.buy_idx < Len(matching.buys)
    /\ matching.m.buys[matching.m.buy_idx + 1].volume <= 0
    /\ matching.buys[matching.m.buy_idx + 1].volume < 0

=============================================================================
